---- MODULE Spec2Model ----
(***************************************************************************)
(* Team lifecycle and assignment engine of the flight scheduler:           *)
(* TeamManager (team_manager.py), NotificationSystem                       *)
(* (notification_system.py), FlightHandler.get_team_size_needed            *)
(* (flight_handler.py) and the team-based orchestration layer that         *)
(* dashboard.py drives (initialize_shift, check_for_team_changes,          *)
(* assign_flights_in_window, approve_team_change).                         *)
(*                                                                         *)
(* Time is in minutes after the start of the day's first shift.            *)
(* An employee or a flight is identified by a positive integer; the        *)
(* employee's name is in one-to-one correspondence with the id, so the     *)
(* lists member_names and member_ids are modelled by the one list          *)
(* member_ids.                                                             *)
(***************************************************************************)
EXTENDS Integers, Sequences, FiniteSets, TLC

VARIABLES
  teams,        \* TeamManager.teams: team name -> team record
  pending,      \* NotificationSystem.pending_notifications
  history,      \* NotificationSystem.notification_history
  counter,      \* NotificationSystem.notification_id_counter
  assignments,  \* the Assignment log (scheduler.assignments)
  swaps,        \* successful manual swaps so far (bounds the model)
  forms,        \* formations so far (bounds SpecForm)
  legacy,       \* the employee-based Scheduler (scheduler.py): its assignments,
                \* its scheduling_results and EmployeeHandler.workload_tracker
  distribution  \* the last call of _calculate_team_distribution: its
                \* total_employees and the (num_teams, team_sizes) it returned

vars ==
  <<teams, pending, history, counter, assignments, swaps, forms, legacy,
    distribution>>

(***************************************************************************)
(* Bounds of the model.                                                    *)
(***************************************************************************)
\* notifications ever created (cap on notification_id_counter)
MaxNotifications == 2
\* successful manual swaps in one behaviour
MaxSwaps == 2
\* flights one team is bound to in one behaviour of SpecRegistry
MaxBinds == 2
\* formations in one behaviour of SpecForm
MaxForms == 2
\* the largest head count _calculate_team_distribution is called with
MaxStaff == 16

(***************************************************************************)
(* Program constants.                                                      *)
(***************************************************************************)
ideal_team_size == 4
min_team_size == 3
critical_min == 2
min_break_minutes == 15
LeaveWindow == 30
ArrivalWindow == 5

team_names == <<"Alpha", "Bravo", "Charlie", "Delta">>

\* Python's None, for a team name, a flight or employee id, and a time.
NoTeam == "None"
NoId == 0
NoTime == 0 - 1

(***************************************************************************)
(* The Roster Pool (employees_df) and the flight source (flights_df), in   *)
(* source order.                                                           *)
(***************************************************************************)
Staff ==
  << [employee_id |-> 1, start |-> 0,  end |-> 80,  max_flights_per_day |-> 3],
     [employee_id |-> 2, start |-> 0,  end |-> 240, max_flights_per_day |-> 3],
     [employee_id |-> 3, start |-> 0,  end |-> 235, max_flights_per_day |-> 3],
     [employee_id |-> 4, start |-> 0,  end |-> 30,  max_flights_per_day |-> 1],
     [employee_id |-> 5, start |-> 0,  end |-> 20,  max_flights_per_day |-> 2],
     [employee_id |-> 6, start |-> 0,  end |-> 20,  max_flights_per_day |-> 2],
     [employee_id |-> 7, start |-> 40, end |-> 245, max_flights_per_day |-> 2] >>

StaffIds == {Staff[i].employee_id : i \in 1..Len(Staff)}

Emp(id) == CHOOSE e \in {Staff[i] : i \in 1..Len(Staff)} : e.employee_id = id

Flights ==
  << [flight_number |-> 1, eta_datetime |-> 20, etd_datetime |-> 50, heaviness |-> "Light"],
     [flight_number |-> 2, eta_datetime |-> 35, etd_datetime |-> 70, heaviness |-> "Medium"],
     [flight_number |-> 3, eta_datetime |-> 90, etd_datetime |-> 5,  heaviness |-> "Heavy"],
     [flight_number |-> 4, eta_datetime |-> 35, etd_datetime |-> 60, heaviness |-> "Heavy"],
     [flight_number |-> 5, eta_datetime |-> 5,  etd_datetime |-> 25, heaviness |-> "Light"] >>

FlightIds == {Flights[i].flight_number : i \in 1..Len(Flights)}

\* the instants the driver passes to change detection and to the engine
Instants == {45, 50, 237}
\* 90 is the arrival of flight 3, and 30 + 60 the end of a one-hour window
AssignInstants == {10, 30, 90}
\* 0: six on shift; 230: three; 237: two; 242: one; 250: none
FormInstants == {0, 230, 237, 242, 250}
\* the instants the driver forms the teams of a shift at
ShiftStarts == {0, 20, 237}
ShuffleOffsets == {0, 1}
\* the manual team assignments the driver passes to an approval
Overrides == {NoTeam, "Alpha", "Bravo"}
WindowHours == {1, 4}
\* the instants SpecRegistry releases a team at, and asks for the available teams at
ReleaseTimes == {5, 50, 70}
QueryInstants == {20, 21, 35, 64, 65, 81, 90}
\* the team names the driver passes to a manual swap ("Delta" is never formed)
SwapNames == {"Alpha", "Bravo", "Delta"}

(***************************************************************************)
(* Sequence helpers.                                                       *)
(***************************************************************************)
Range(s) == {s[i] : i \in 1..Len(s)}

\* [x for x in s if x != v]
Without(s, v) == SelectSeq(s, LAMBDA x : x # v)

RECURSIVE Perms(_)
\* every order random.shuffle can leave the elements of S in
Perms(S) ==
  IF S = {} THEN {<<>>}
  ELSE UNION {{<<x>> \o p : p \in Perms(S \ {x})} : x \in S}

RECURSIVE SumSeq(_)
SumSeq(s) == IF s = <<>> THEN 0 ELSE Head(s) + SumSeq(Tail(s))

\* the orders of the shuffled list that Spec and SpecEngine explore: s rotated
\* by each of ShuffleOffsets (SpecForm explores every order)
Rotations(s) ==
  {[i \in 1..Len(s) |-> s[((i + k - 1) % Len(s)) + 1]] : k \in ShuffleOffsets}

\* teams.items(): the registry's names in insertion order, which is label order
TeamOrder(t) == SelectSeq(team_names, LAMBDA n : n \in DOMAIN t)

(***************************************************************************)
(* TeamManager._calculate_team_distribution                                *)
(***************************************************************************)
\* the team count with strict thresholds: 12 people do not make 4 teams
NumTeamsStrictly(total_employees, min_size, crit_min) ==
  IF total_employees > 4 * min_size THEN 4
  ELSE IF total_employees > 3 * min_size THEN 3
  ELSE IF total_employees > 2 * min_size THEN 2
  ELSE IF total_employees >= crit_min THEN 1
  ELSE 0

NumTeams(total_employees, min_size, crit_min) ==
  IF total_employees >= 4 * min_size THEN 4
  ELSE IF total_employees >= 3 * min_size THEN 3
  ELSE IF total_employees >= 2 * min_size THEN 2
  ELSE IF total_employees >= crit_min THEN 1
  ELSE 0

\* the distribution that gives the extra people to the last teams
calculate_team_distribution_last_first(total_employees, ideal_size, min_size, crit_min) ==
  LET num_teams == NumTeams(total_employees, min_size, crit_min)
  IN  IF num_teams = 0
      THEN [num_teams |-> 0, team_sizes |-> <<>>]
      ELSE LET base_size == total_employees \div num_teams
               remainder == total_employees % num_teams
           IN  [num_teams |-> num_teams,
                team_sizes |-> [i \in 1..num_teams |->
                                  IF i > num_teams - remainder
                                  THEN base_size + 1 ELSE base_size]]

calculate_team_distribution(total_employees, ideal_size, min_size, crit_min) ==
  LET num_teams == NumTeams(total_employees, min_size, crit_min)
  IN  IF num_teams = 0
      THEN [num_teams |-> 0, team_sizes |-> <<>>]
      ELSE LET base_size == total_employees \div num_teams
               remainder == total_employees % num_teams
           IN  [num_teams |-> num_teams,
                team_sizes |-> [i \in 1..num_teams |->
                                  IF i <= remainder THEN base_size + 1 ELSE base_size]]

(***************************************************************************)
(* TeamManager.form_initial_teams                                          *)
(***************************************************************************)
\* employees working at shift_start_time, in pool order
AvailableAt(shift_start_time) ==
  SelectSeq(Staff, LAMBDA e : e.start <= shift_start_time /\ e.end > shift_start_time)

NewTeam(team_members, team_size) ==
  [members |-> team_members,
   member_ids |-> team_members,
   flight_count |-> 0,
   current_flight |-> NoId,
   last_flight_end |-> NoTime,
   size |-> team_size]

\* the registry after the formation loop has run over the shuffled list
FormedTeams(old, employees_list, dist) ==
  LET formed == {team_names[i] : i \in 1..dist.num_teams}
      first(i) == SumSeq(SubSeq(dist.team_sizes, 1, i - 1))
      idx(n) == CHOOSE i \in 1..dist.num_teams : team_names[i] = n
  IN  [n \in DOMAIN old \cup formed |->
         IF n \in formed
         THEN NewTeam(SubSeq(employees_list, first(idx(n)) + 1,
                             first(idx(n)) + dist.team_sizes[idx(n)]),
                      dist.team_sizes[idx(n)])
         ELSE old[n]]

\* form_initial_teams that empties the registry when nobody is on shift
form_initial_teams_resetting(old, shift_start_time, employees_list) ==
  LET total_employees == Len(AvailableAt(shift_start_time))
      dist == calculate_team_distribution(total_employees, ideal_team_size,
                                          min_team_size, critical_min)
  IN  IF total_employees = 0
      THEN [ok |-> FALSE, err |-> "No employees available at shift start",
            teams |-> <<>>, remainder |-> <<>>]
      ELSE [ok |-> TRUE, err |-> "",
            teams |-> FormedTeams(old, employees_list, dist),
            remainder |-> SubSeq(employees_list, SumSeq(dist.team_sizes) + 1,
                                 total_employees)]

\* form_initial_teams when random.shuffle leaves the list as employees_list:
\* what it returns (ok: a teams/remainder pair, else None and err) and the
\* registry afterwards
form_initial_teams(old, shift_start_time, employees_list) ==
  LET total_employees == Len(AvailableAt(shift_start_time))
      dist == calculate_team_distribution(total_employees, ideal_team_size,
                                          min_team_size, critical_min)
  IN  IF total_employees = 0
      THEN [ok |-> FALSE, err |-> "No employees available at shift start",
            teams |-> old, remainder |-> <<>>]
      ELSE [ok |-> TRUE, err |-> "",
            teams |-> FormedTeams(old, employees_list, dist),
            remainder |-> SubSeq(employees_list, SumSeq(dist.team_sizes) + 1,
                                 total_employees)]

\* the ids of available_employees.to_dict('records'), before the shuffle
EmployeesList(shift_start_time) ==
  [i \in 1..Len(AvailableAt(shift_start_time)) |->
     AvailableAt(shift_start_time)[i].employee_id]

(***************************************************************************)
(* TeamManager.get_available_teams, assign_team_to_flight, complete_flight *)
(***************************************************************************)
\* the three checks with the shift-end comparison off by one: a member whose
\* shift ends exactly at flight_time excludes the team
TeamIsAvailableEndExclusive(team_data, flight_time, min_break) ==
  /\ team_data.current_flight = NoId
  /\ \/ team_data.last_flight_end = NoTime
     \/ ~(flight_time - team_data.last_flight_end < min_break)
  /\ \A i \in 1..Len(team_data.members) :
        ~(Emp(team_data.members[i]).end <= flight_time)

\* the team passes the three checks of the loop body at flight_time
TeamIsAvailable(team_data, flight_time, min_break) ==
  /\ team_data.current_flight = NoId
  /\ \/ team_data.last_flight_end = NoTime
     \/ ~(flight_time - team_data.last_flight_end < min_break)
  /\ \A i \in 1..Len(team_data.members) :
        ~(Emp(team_data.members[i]).end < flight_time)

\* the entry of an available team without its flight counter
TeamEntryCountless(t, team_name) ==
  [name |-> team_name,
   size |-> t[team_name].size,
   flight_count |-> 0,
   members |-> t[team_name].member_ids]

TeamEntry(t, team_name) ==
  [name |-> team_name,
   size |-> t[team_name].size,
   flight_count |-> t[team_name].flight_count,
   members |-> t[team_name].member_ids]

get_available_teams(t, flight_time, min_break) ==
  LET names == SelectSeq(TeamOrder(t),
                         LAMBDA n : TeamIsAvailable(t[n], flight_time, min_break))
  IN  [i \in 1..Len(names) |-> TeamEntry(t, names[i])]

assign_team_to_flight(t, team_name, flight) ==
  IF team_name \notin DOMAIN t THEN t
  ELSE [t EXCEPT ![team_name].current_flight = flight.flight_number,
                 ![team_name].flight_count = @ + 1]

\* complete_flight that also disbands the released team
complete_flight_disbanding(t, team_name, flight_end_time) ==
  IF team_name \notin DOMAIN t THEN t
  ELSE [t EXCEPT ![team_name].current_flight = NoId,
                 ![team_name].last_flight_end = flight_end_time,
                 ![team_name].members = <<>>,
                 ![team_name].member_ids = <<>>,
                 ![team_name].size = 0]

\* complete_flight that records the end but leaves the team bound
complete_flight_still_bound(t, team_name, flight_end_time) ==
  IF team_name \notin DOMAIN t THEN t
  ELSE [t EXCEPT ![team_name].last_flight_end = flight_end_time]

complete_flight(t, team_name, flight_end_time) ==
  IF team_name \notin DOMAIN t THEN t
  ELSE [t EXCEPT ![team_name].current_flight = NoId,
                 ![team_name].last_flight_end = flight_end_time]

(***************************************************************************)
(* FlightHandler.get_team_size_needed                                      *)
(***************************************************************************)
get_team_size_needed(heaviness) ==
  IF heaviness = "Light" THEN 3
  ELSE IF heaviness = "Medium" THEN 4
  ELSE IF heaviness = "Heavy" THEN 5
  ELSE 4

(***************************************************************************)
(* NotificationSystem                                                      *)
(***************************************************************************)
Notification(notification_id, notification_type, data) ==
  [id |-> notification_id, type |-> notification_type, status |-> "pending",
   data |-> data]

RECURSIVE CreateAllOnce(_, _, _)
\* creation that skips a notification whose type and data are already pending
CreateAllOnce(queue, next_id, datas) ==
  IF datas = <<>> THEN [queue |-> queue, counter |-> next_id]
  ELSE IF \E i \in 1..Len(queue) :
            queue[i].type = Head(datas).type /\ queue[i].data = Head(datas).data
  THEN CreateAllOnce(queue, next_id, Tail(datas))
  ELSE CreateAllOnce(Append(queue, Notification(next_id, Head(datas).type,
                                                Head(datas).data)),
                     next_id + 1, Tail(datas))

RECURSIVE CreateAllByQueueLength(_, _, _)
\* creation that numbers a notification by the length of the pending queue
CreateAllByQueueLength(queue, next_id, datas) ==
  IF datas = <<>> THEN [queue |-> queue, counter |-> next_id]
  ELSE CreateAllByQueueLength(
         Append(queue, Notification(Len(queue), Head(datas).type, Head(datas).data)),
         next_id + 1, Tail(datas))

\* create_notification for each element of datas, in order: the queue and
\* the counter afterwards
RECURSIVE CreateAll(_, _, _)
CreateAll(queue, next_id, datas) ==
  IF datas = <<>> THEN [queue |-> queue, counter |-> next_id]
  ELSE CreateAll(Append(queue, Notification(next_id, Head(datas).type, Head(datas).data)),
                 next_id + 1, Tail(datas))

\* the first notification of the queue with this id, as an index (0: none)
FindPending(queue, notification_id) ==
  IF \E i \in 1..Len(queue) : queue[i].id = notification_id
  THEN CHOOSE i \in 1..Len(queue) :
         /\ queue[i].id = notification_id
         /\ \A j \in 1..(i - 1) : queue[j].id # notification_id
  ELSE 0

\* deque.remove(x): the queue without its first element equal to x
RemoveAt(queue, i) == SubSeq(queue, 1, i - 1) \o SubSeq(queue, i + 1, Len(queue))

\* the history entry of an approval whose status is left as it was
ApprovedStatusKept(notification, manual_override) ==
  [id |-> notification.id, type |-> notification.type, status |-> notification.status,
   data |-> notification.data, manual_override |-> manual_override]

Approved(notification, manual_override) ==
  [id |-> notification.id, type |-> notification.type, status |-> "approved",
   data |-> notification.data, manual_override |-> manual_override]

\* the history entry of a rejection whose status is left as it was
RejectedStatusKept(notification, reason) ==
  [id |-> notification.id, type |-> notification.type, status |-> notification.status,
   data |-> notification.data, rejection_reason |-> reason]

Rejected(notification, reason) ==
  [id |-> notification.id, type |-> notification.type, status |-> "rejected",
   data |-> notification.data, rejection_reason |-> reason]

\* approve_notification without pending_notifications.remove(notification)
approve_notification_keeping(queue, hist, notification_id, manual_override) ==
  LET i == FindPending(queue, notification_id)
  IN  IF i = 0
      THEN [ok |-> FALSE, pending |-> queue, history |-> hist]
      ELSE [ok |-> TRUE, pending |-> queue,
            history |-> Append(hist, Approved(queue[i], manual_override))]

\* approve_notification: the ledger afterwards and what it returns
approve_notification(queue, hist, notification_id, manual_override) ==
  LET i == FindPending(queue, notification_id)
  IN  IF i = 0
      THEN [ok |-> FALSE, pending |-> queue, history |-> hist]
      ELSE [ok |-> TRUE, pending |-> RemoveAt(queue, i),
            history |-> Append(hist, Approved(queue[i], manual_override))]

\* reject_notification without notification_history.append(notification)
reject_notification_dropping(queue, hist, notification_id, reason) ==
  LET i == FindPending(queue, notification_id)
  IN  IF i = 0
      THEN [ok |-> FALSE, pending |-> queue, history |-> hist]
      ELSE [ok |-> TRUE, pending |-> RemoveAt(queue, i), history |-> hist]

\* reject_notification without pending_notifications.remove(notification)
reject_notification_keeping(queue, hist, notification_id, reason) ==
  LET i == FindPending(queue, notification_id)
  IN  IF i = 0
      THEN [ok |-> FALSE, pending |-> queue, history |-> hist]
      ELSE [ok |-> TRUE, pending |-> queue,
            history |-> Append(hist, Rejected(queue[i], reason))]

reject_notification(queue, hist, notification_id, reason) ==
  LET i == FindPending(queue, notification_id)
  IN  IF i = 0
      THEN [ok |-> FALSE, pending |-> queue, history |-> hist]
      ELSE [ok |-> TRUE, pending |-> RemoveAt(queue, i),
            history |-> Append(hist, Rejected(queue[i], reason))]

\* the creation instant of a notification (datetime.now() in
\* create_notification): later notifications carry later instants, so the
\* instants are ordered as the ids are
Timestamp(notification) == notification.id

\* clear_old_notifications with datetime.now() - timedelta(hours) = cutoff_time
clear_old_notifications(hist, cutoff_time) ==
  SelectSeq(hist, LAMBDA n : Timestamp(n) > cutoff_time)

(***************************************************************************)
(* TeamManager.detect_and_notify_changes                                   *)
(***************************************************************************)
\* potential_replacements for a member of team_data, in pool order
PotentialReplacements(team_data, current_time) ==
  SelectSeq(Staff, LAMBDA e :
     /\ e.start <= current_time
     /\ e.end > current_time + LeaveWindow
     /\ e.employee_id \notin Range(team_data.member_ids))

\* the notification the leaving scan creates for one member, if any
LeavingNotice(t, team_name, member, current_time) ==
  LET time_until_end == Emp(member).end - current_time
      potential_replacements == PotentialReplacements(t[team_name], current_time)
  IN  IF ~(0 < time_until_end /\ time_until_end <= LeaveWindow) THEN <<>>
      ELSE IF Len(potential_replacements) > 0
      THEN << [type |-> "team_replacement",
               data |-> [team_name |-> team_name,
                         leaving_id |-> member,
                         joining_id |-> potential_replacements[1].employee_id]] >>
      ELSE << [type |-> "team_leave",
               data |-> [team_name |-> team_name,
                         employee_id |-> member,
                         remaining_team_size |-> Len(t[team_name].members) - 1]] >>

RECURSIVE LeavingNotices(_, _, _, _)
LeavingNotices(t, team_name, members, current_time) ==
  IF members = <<>> THEN <<>>
  ELSE LeavingNotice(t, team_name, Head(members), current_time)
       \o LeavingNotices(t, team_name, Tail(members), current_time)

RECURSIVE AllMemberIds(_, _)
AllMemberIds(t, names) ==
  IF names = <<>> THEN <<>>
  ELSE t[Head(names)].member_ids \o AllMemberIds(t, Tail(names))

RecentArrivals(t, current_time) ==
  SelectSeq(Staff, LAMBDA e :
     /\ e.start <= current_time
     /\ e.start >= current_time - ArrivalWindow
     /\ e.employee_id \notin Range(AllMemberIds(t, TeamOrder(t))))

\* the first team below the optimal size, or None
SuggestedTeam(t) ==
  LET below == SelectSeq(TeamOrder(t), LAMBDA n : t[n].size < 4)
  IN  IF below = <<>> THEN NoTeam ELSE Head(below)

JoinNotices(t, current_time) ==
  LET recent_arrivals == RecentArrivals(t, current_time)
  IN  [i \in 1..Len(recent_arrivals) |->
         [type |-> "team_join",
          data |-> [employee_id |-> recent_arrivals[i].employee_id,
                    team_name |-> IF SuggestedTeam(t) # NoTeam
                                  THEN SuggestedTeam(t) ELSE "TBD",
                    suggested_team |-> SuggestedTeam(t)]]]

\* the body of the loop over teams.items(): both scans, once per team
RECURSIVE DetectedNotices(_, _, _)
DetectedNotices(t, names, current_time) ==
  IF names = <<>> THEN <<>>
  ELSE LeavingNotices(t, Head(names), t[Head(names)].members, current_time)
       \o JoinNotices(t, current_time)
       \o DetectedNotices(t, Tail(names), current_time)

\* the ledger afterwards and the ids returned (notifications_created)
detect_and_notify_changes(t, queue, next_id, current_time) ==
  LET notices == DetectedNotices(t, TeamOrder(t), current_time)
      after == CreateAll(queue, next_id, notices)
  IN  [pending |-> after.queue, counter |-> after.counter,
       created |-> [i \in 1..Len(notices) |-> next_id + i - 1]]

(***************************************************************************)
(* TeamManager.apply_team_change                                           *)
(***************************************************************************)
\* apply_team_change whose replacement keeps the leaving member
apply_team_change_keeping_leaver(t, change) ==
  LET team_name == change.team
      kept == Without(t[team_name].members, change.leaving)
  IN  IF change.type = "replacement"
      THEN [t EXCEPT ![team_name].members = Append(@, change.joining),
                     ![team_name].member_ids = Append(@, change.joining)]
      ELSE IF change.type = "leaving"
      THEN [t EXCEPT ![team_name].members = kept,
                     ![team_name].member_ids = kept,
                     ![team_name].size = Len(kept)]
      ELSE t

\* apply_team_change that disbands a team its last member leaves
apply_team_change_disbanding(t, change) ==
  LET team_name == change.team
      kept == Without(t[team_name].members, change.leaving)
  IN  IF change.type = "replacement"
      THEN [t EXCEPT ![team_name].members = Append(kept, change.joining),
                     ![team_name].member_ids = Append(kept, change.joining)]
      ELSE IF change.type = "leaving"
      THEN IF kept = <<>>
           THEN [n \in DOMAIN t \ {team_name} |-> t[n]]
           ELSE [t EXCEPT ![team_name].members = kept,
                          ![team_name].member_ids = kept,
                          ![team_name].size = Len(kept)]
      ELSE t

apply_team_change(t, change) ==
  LET team_name == change.team
      kept == Without(t[team_name].members, change.leaving)
  IN  IF change.type = "replacement"
      THEN [t EXCEPT ![team_name].members = Append(kept, change.joining),
                     ![team_name].member_ids = Append(kept, change.joining)]
      ELSE IF change.type = "leaving"
      THEN [t EXCEPT ![team_name].members = kept,
                     ![team_name].member_ids = kept,
                     ![team_name].size = Len(kept)]
      ELSE t

(***************************************************************************)
(* TeamManager.manually_swap_members                                       *)
(***************************************************************************)
\* a swap that appends the employee to the second team although the first
\* team does not hold them
manually_swap_members_unsearched(t, team1_name, team2_name, employee_id) ==
  IF team1_name \notin DOMAIN t \/ team2_name \notin DOMAIN t
  THEN [ok |-> FALSE, teams |-> t]
  ELSE LET removed == [t EXCEPT
                         ![team1_name].members = Without(@, employee_id),
                         ![team1_name].size = Len(Without(t[team1_name].members,
                                                          employee_id))]
           added == [removed EXCEPT
                         ![team2_name].members = Append(@, employee_id),
                         ![team2_name].size = Len(removed[team2_name].members) + 1]
       IN  [ok |-> TRUE,
            teams |-> [n \in DOMAIN added |->
                         IF n \in {team1_name, team2_name}
                         THEN [added[n] EXCEPT !.member_ids = added[n].members]
                         ELSE added[n]]]

\* what it returns (ok) and the registry afterwards
manually_swap_members(t, team1_name, team2_name, employee_id) ==
  IF team1_name \notin DOMAIN t \/ team2_name \notin DOMAIN t
  THEN [ok |-> FALSE, teams |-> t]
  ELSE IF employee_id \notin Range(t[team1_name].members)
  THEN [ok |-> FALSE, teams |-> t]
  ELSE LET removed == [t EXCEPT
                         ![team1_name].members = Without(@, employee_id),
                         ![team1_name].size = Len(Without(t[team1_name].members,
                                                          employee_id))]
           added == [removed EXCEPT
                         ![team2_name].members = Append(@, employee_id),
                         ![team2_name].size = Len(removed[team2_name].members) + 1]
       IN  [ok |-> TRUE,
            teams |-> [n \in DOMAIN added |->
                         IF n \in {team1_name, team2_name}
                         THEN [added[n] EXCEPT !.member_ids = added[n].members]
                         ELSE added[n]]]

(***************************************************************************)
(* The orchestration layer: approval and rejection of a notification       *)
(***************************************************************************)
\* a target that ignores the caller's override
JoinTargetSuggestionOnly(notification, manual_override) ==
  notification.data.suggested_team

\* the team a team_join is applied to: the override, else the suggestion
JoinTarget(notification, manual_override) ==
  IF manual_override # NoTeam THEN manual_override
  ELSE notification.data.suggested_team

\* the registry after the approved notification has been interpreted
ApplyNotification(t, notification, manual_override) ==
  IF notification.type = "team_replacement"
  THEN apply_team_change(t, [team |-> notification.data.team_name,
                             type |-> "replacement",
                             leaving |-> notification.data.leaving_id,
                             joining |-> notification.data.joining_id])
  ELSE IF notification.type = "team_leave"
  THEN apply_team_change(t, [team |-> notification.data.team_name,
                             type |-> "leaving",
                             leaving |-> notification.data.employee_id,
                             joining |-> NoId])
  ELSE IF notification.type = "team_join"
  THEN LET target == JoinTarget(notification, manual_override)
       IN  [t EXCEPT ![target].members = Append(@, notification.data.employee_id),
                     ![target].member_ids = Append(@, notification.data.employee_id),
                     ![target].size = @ + 1]
  ELSE t

\* what it returns (ok, err), the registry and the ledger afterwards
approve_team_change(t, queue, hist, notification_id, manual_team_assignment) ==
  LET i == FindPending(queue, notification_id)
      ledger == approve_notification(queue, hist, notification_id,
                                     manual_team_assignment)
  IN  IF i = 0
      THEN [ok |-> FALSE, err |-> "NotificationNotFound",
            teams |-> t, pending |-> queue, history |-> hist]
      ELSE IF /\ queue[i].type = "team_join"
              /\ JoinTarget(queue[i], manual_team_assignment) \notin DOMAIN t
      THEN [ok |-> FALSE, err |-> "InvalidOverride",
            teams |-> t, pending |-> queue, history |-> hist]
      ELSE [ok |-> TRUE, err |-> "",
            teams |-> ApplyNotification(t, queue[i], manual_team_assignment),
            pending |-> ledger.pending, history |-> ledger.history]

(***************************************************************************)
(* The orchestration layer: the assignment engine                          *)
(***************************************************************************)
LoggedFlights(log) == {log[i].flight_id : i \in 1..Len(log)}

\* a window that also takes the flight arriving as it closes
InWindowClosed(flight, current_time, window_hours) ==
  /\ flight.eta_datetime >= current_time
  /\ flight.eta_datetime <= current_time + 60 * window_hours

InWindow(flight, current_time, window_hours) ==
  /\ flight.eta_datetime >= current_time
  /\ flight.eta_datetime < current_time + 60 * window_hours

RECURSIVE InsertBySizeThenEta(_, _)
\* s is sorted; f goes after every flight that sorts no later than it
InsertBySizeThenEta(s, f) ==
  LET size(x) == get_team_size_needed(x.heaviness)
  IN  IF s = <<>> THEN <<f>>
      ELSE IF \/ size(Head(s)) > size(f)
              \/ size(Head(s)) = size(f) /\ Head(s).eta_datetime <= f.eta_datetime
      THEN <<Head(s)>> \o InsertBySizeThenEta(Tail(s), f)
      ELSE <<f>> \o s

RECURSIVE SortBySizeThenEta(_)
\* sort_values(['required_team_size', 'eta_datetime'], ascending=[False, True])
SortBySizeThenEta(s) ==
  IF s = <<>> THEN <<>>
  ELSE InsertBySizeThenEta(SortBySizeThenEta(SubSeq(s, 1, Len(s) - 1)), s[Len(s)])

\* a pass that takes its flights in the Scheduler's order
SortHeaviestFirst(s) == SortBySizeThenEta(s)

RECURSIVE InsertByEta(_, _)
\* s is sorted by arrival; f goes after every flight arriving no later
InsertByEta(s, f) ==
  IF s = <<>> THEN <<f>>
  ELSE IF Head(s).eta_datetime <= f.eta_datetime
  THEN <<Head(s)>> \o InsertByEta(Tail(s), f)
  ELSE <<f>> \o s

RECURSIVE SortByEta(_)
\* a stable sort by arrival time
SortByEta(s) ==
  IF s = <<>> THEN <<>>
  ELSE InsertByEta(SortByEta(SubSeq(s, 1, Len(s) - 1)), s[Len(s)])

\* the first candidate with the lowest flight counter
PickTeam(candidates) ==
  LET i == CHOOSE k \in 1..Len(candidates) :
             /\ \A j \in 1..Len(candidates) :
                   candidates[k].flight_count <= candidates[j].flight_count
             /\ \A j \in 1..(k - 1) :
                   candidates[j].flight_count # candidates[k].flight_count
  IN  candidates[i]

Candidates(available, required_team_size) ==
  LET big_enough == SelectSeq(available, LAMBDA a : a.size >= required_team_size)
  IN  IF big_enough = <<>> THEN available ELSE big_enough

FailedAssignment(flight, reason) ==
  [flight_id |-> flight.flight_number, team_assigned |-> NoTeam,
   team_members |-> <<>>, assignment_success |-> FALSE, failure_reason |-> reason]

SuccessfulAssignment(flight, team) ==
  [flight_id |-> flight.flight_number, team_assigned |-> team.name,
   team_members |-> team.members, assignment_success |-> TRUE, failure_reason |-> ""]

\* one flight of a pass that refuses a team below the required size
AssignFlightFullSizeOnly(st, flight) ==
  LET available == get_available_teams(st.teams, flight.eta_datetime, min_break_minutes)
      big_enough == SelectSeq(available, LAMBDA a :
                       a.size >= get_team_size_needed(flight.heaviness))
      team == PickTeam(big_enough)
  IN  IF available = <<>>
      THEN [teams |-> st.teams,
            log |-> Append(st.log, FailedAssignment(flight, "NoTeamAvailable"))]
      ELSE IF big_enough = <<>>
      THEN [teams |-> st.teams,
            log |-> Append(st.log, FailedAssignment(flight, "InsufficientTeamSize"))]
      ELSE [teams |-> complete_flight(assign_team_to_flight(st.teams, team.name, flight),
                                      team.name, flight.etd_datetime),
            log |-> Append(st.log, SuccessfulAssignment(flight, team))]

\* one flight of the pass: the registry and the log afterwards
AssignFlight(st, flight) ==
  LET available == get_available_teams(st.teams, flight.eta_datetime, min_break_minutes)
      team == PickTeam(Candidates(available,
                                  get_team_size_needed(flight.heaviness)))
  IN  IF available = <<>>
      THEN [teams |-> st.teams,
            log |-> Append(st.log, FailedAssignment(flight, "NoTeamAvailable"))]
      ELSE [teams |-> complete_flight(assign_team_to_flight(st.teams, team.name, flight),
                                      team.name, flight.etd_datetime),
            log |-> Append(st.log, SuccessfulAssignment(flight, team))]

RECURSIVE AssignAll(_, _)
AssignAll(st, flights) ==
  IF flights = <<>> THEN st
  ELSE AssignAll(AssignFlight(st, Head(flights)), Tail(flights))

\* a pass that takes a flight again when all its records are failures
assign_flights_in_window_retrying(t, log, current_time, window_hours) ==
  LET done == {log[i].flight_id : i \in {k \in 1..Len(log) : log[k].assignment_success}}
      todo == SortByEta(SelectSeq(Flights, LAMBDA f :
                  /\ InWindow(f, current_time, window_hours)
                  /\ f.flight_number \notin done))
      after == AssignAll([teams |-> t, log |-> log], todo)
  IN  [teams |-> after.teams, log |-> after.log, processed |-> Len(todo)]

\* the registry and the log afterwards, and the count it returns
assign_flights_in_window(t, log, current_time, window_hours) ==
  LET todo == SortByEta(SelectSeq(Flights, LAMBDA f :
                  /\ InWindow(f, current_time, window_hours)
                  /\ f.flight_number \notin LoggedFlights(log)))
      after == AssignAll([teams |-> t, log |-> log], todo)
  IN  [teams |-> after.teams, log |-> after.log, processed |-> Len(todo)]

(***************************************************************************)
(* The employee-based Scheduler (scheduler.py) over EmployeeHandler         *)
(***************************************************************************)
\* EmployeeHandler.reset_workload
reset_workload == [id \in StaffIds |-> 0]

find_available_employees(workload_tracker, flight_start, flight_end) ==
  SelectSeq(Staff, LAMBDA e :
     /\ e.start <= flight_start
     /\ e.end >= flight_end
     /\ workload_tracker[e.employee_id] < e.max_flights_per_day)

RECURSIVE InsertByWorkload(_, _, _)
InsertByWorkload(workload_tracker, s, e) ==
  IF s = <<>> THEN <<e>>
  ELSE IF workload_tracker[Head(s).employee_id] <= workload_tracker[e.employee_id]
  THEN <<Head(s)>> \o InsertByWorkload(workload_tracker, Tail(s), e)
  ELSE <<e>> \o s

RECURSIVE SortByWorkload(_, _)
\* sort_values('current_workload'): lowest first, equal workloads in pool order
SortByWorkload(workload_tracker, s) ==
  IF s = <<>> THEN <<>>
  ELSE InsertByWorkload(workload_tracker,
                        SortByWorkload(workload_tracker, SubSeq(s, 1, Len(s) - 1)),
                        s[Len(s)])

\* the employee ids of the selected team ([] when too few are available)
find_best_team(workload_tracker, required_size, available_employees) ==
  IF Len(available_employees) < required_size THEN <<>>
  ELSE LET selected_team == SubSeq(SortByWorkload(workload_tracker, available_employees),
                                   1, required_size)
       IN  [i \in 1..Len(selected_team) |-> selected_team[i].employee_id]

\* a failure that is counted but leaves no record in the log
record_failed_assignment_unlogged(l, flight, reason) ==
  [l EXCEPT
     !.scheduling_results.failed_assignments = @ + 1,
     !.scheduling_results.unassigned_flights = Append(@, flight.flight_number)]

\* a failure that is logged but not counted
record_failed_assignment_uncounted(l, flight, reason) ==
  [l EXCEPT
     !.assignments = Append(@, [flight_id |-> flight.flight_number,
                                team_ids |-> <<>>,
                                failure_reason |-> reason,
                                assignment_success |-> FALSE]),
     !.scheduling_results.unassigned_flights = Append(@, flight.flight_number)]

record_failed_assignment(l, flight, reason) ==
  [l EXCEPT
     !.assignments = Append(@, [flight_id |-> flight.flight_number,
                                team_ids |-> <<>>,
                                failure_reason |-> reason,
                                assignment_success |-> FALSE]),
     !.scheduling_results.failed_assignments = @ + 1,
     !.scheduling_results.unassigned_flights = Append(@, flight.flight_number)]

RECURSIVE AssignEmployees(_, _)
\* assign_flight_to_employee for each id of the selected team
AssignEmployees(workload_tracker, ids) ==
  IF ids = <<>> THEN workload_tracker
  ELSE AssignEmployees([workload_tracker EXCEPT ![Head(ids)] = @ + 1], Tail(ids))

\* Scheduler._assign_flight
assign_flight(l, flight) ==
  LET required_team_size == get_team_size_needed(flight.heaviness)
      available_employees == find_available_employees(l.workload_tracker,
                                 flight.eta_datetime, flight.etd_datetime)
      selected_team == find_best_team(l.workload_tracker, required_team_size,
                                      available_employees)
  IN  IF Len(available_employees) = 0
      THEN record_failed_assignment(l, flight, "No employees available for time slot")
      ELSE IF Len(selected_team) < required_team_size
      THEN record_failed_assignment(l, flight, "Insufficient employees")
      ELSE [l EXCEPT
              !.workload_tracker = AssignEmployees(@, selected_team),
              !.assignments = Append(@, [flight_id |-> flight.flight_number,
                                         team_ids |-> selected_team,
                                         failure_reason |-> "",
                                         assignment_success |-> TRUE]),
              !.scheduling_results.successful_assignments = @ + 1,
              !.scheduling_results.total_positions_filled = @ + Len(selected_team)]

RECURSIVE AssignEach(_, _)
AssignEach(l, flights) ==
  IF flights = <<>> THEN l
  ELSE AssignEach(assign_flight(l, Head(flights)), Tail(flights))

NoResults ==
  [successful_assignments |-> 0, failed_assignments |-> 0,
   total_positions_filled |-> 0, unassigned_flights |-> <<>>]

\* a Scheduler that has not run yet, over the loaded EmployeeHandler
NewScheduler ==
  [assignments |-> <<>>, workload_tracker |-> reset_workload,
   scheduling_results |-> NoResults]

\* run_scheduling without the reset of the previous run's assignments
run_scheduling_keeping_log(l) ==
  AssignEach([l EXCEPT !.scheduling_results = NoResults,
                       !.workload_tracker = reset_workload],
             SortBySizeThenEta(Flights))

\* Scheduler.run_scheduling on a Scheduler in state l: the state afterwards
run_scheduling(l) ==
  AssignEach([l EXCEPT !.assignments = <<>>,
                       !.scheduling_results = NoResults,
                       !.workload_tracker = reset_workload],
             SortBySizeThenEta(Flights))

AllOrders(s) == Perms(Range(s))

Init ==
  /\ teams = <<>>
  /\ pending = <<>>
  /\ history = <<>>
  /\ counter = 0
  /\ assignments = <<>>
  /\ swaps = 0
  /\ forms = 0
  /\ legacy = NewScheduler
  /\ distribution = [total |-> 0, num_teams |-> 0, team_sizes |-> <<>>]

\* the driver forms the teams of a shift once, on a registry that holds none
Form ==
  /\ DOMAIN teams = {}
  /\ \E t \in ShiftStarts : \E employees_list \in Rotations(EmployeesList(t)) :
        teams' = form_initial_teams(teams, t, employees_list).teams
  /\ UNCHANGED <<pending, history, counter, assignments, swaps, forms, legacy, distribution>>

\* formation, as often as MaxForms allows, on whatever the registry holds
FormAll ==
  /\ forms < MaxForms
  /\ \E t \in FormInstants : \E employees_list \in AllOrders(EmployeesList(t)) :
        teams' = form_initial_teams(teams, t, employees_list).teams
  /\ forms' = forms + 1
  /\ UNCHANGED <<pending, history, counter, assignments, swaps, legacy, distribution>>

\* formation again on a registry that holds teams, as often as MaxForms allows
Reform ==
  /\ DOMAIN teams # {}
  /\ forms < MaxForms
  /\ \E t \in ShiftStarts : \E employees_list \in Rotations(EmployeesList(t)) :
        teams' = form_initial_teams(teams, t, employees_list).teams
  /\ forms' = forms + 1
  /\ UNCHANGED <<pending, history, counter, assignments, swaps, legacy, distribution>>

Detect ==
  \E t \in Instants :
    LET r == detect_and_notify_changes(teams, pending, counter, t)
    IN  /\ r.counter <= MaxNotifications
        /\ pending' = r.pending
        /\ counter' = r.counter
        /\ UNCHANGED <<teams, history, assignments, swaps, forms, legacy, distribution>>

\* the manual team assignments the driver passes when it approves this id: a
\* team is chosen only for an arrival
OverridesFor(queue, id) ==
  IF \E i \in 1..Len(queue) : queue[i].id = id /\ queue[i].type = "team_join"
  THEN Overrides ELSE {NoTeam}

Approve ==
  \E id \in 0..MaxNotifications : \E o \in OverridesFor(pending, id) :
    LET r == approve_team_change(teams, pending, history, id, o)
    IN  /\ teams' = r.teams
        /\ pending' = r.pending
        /\ history' = r.history
        /\ UNCHANGED <<counter, assignments, swaps, forms, legacy, distribution>>

Reject ==
  \E id \in 0..MaxNotifications :
    LET r == reject_notification(pending, history, id, NoTeam)
    IN  /\ pending' = r.pending
        /\ history' = r.history
        /\ UNCHANGED <<teams, counter, assignments, swaps, forms, legacy, distribution>>

Swap ==
  \E a \in SwapNames, b \in SwapNames, e \in StaffIds :
    LET r == manually_swap_members(teams, a, b, e)
    IN  /\ r.ok => swaps < MaxSwaps
        /\ teams' = r.teams
        /\ swaps' = IF r.ok THEN swaps + 1 ELSE swaps
        /\ UNCHANGED <<pending, history, counter, assignments, forms, legacy, distribution>>

Assign ==
  \E t \in AssignInstants, w \in WindowHours :
    LET r == assign_flights_in_window(teams, assignments, t, w)
    IN  /\ teams' = r.teams
        /\ assignments' = r.log
        /\ UNCHANGED <<pending, history, counter, swaps, forms, legacy, distribution>>

\* main.py runs the employee-based Scheduler over all flights
RunScheduling ==
  /\ legacy' = run_scheduling(legacy)
  /\ UNCHANGED <<teams, pending, history, counter, assignments, swaps, forms, distribution>>

\* a caller of the registry binds a team to a flight ...
Bind ==
  \E n \in SwapNames, i \in 1..Len(Flights) :
    /\ n \in DOMAIN teams => teams[n].flight_count < MaxBinds
    /\ teams' = assign_team_to_flight(teams, n, Flights[i])
    /\ UNCHANGED <<pending, history, counter, assignments, swaps, forms, legacy, distribution>>

\* ... and releases it
Release ==
  \E n \in SwapNames, t \in ReleaseTimes :
    /\ teams' = complete_flight(teams, n, t)
    /\ UNCHANGED <<pending, history, counter, assignments, swaps, forms, legacy, distribution>>

\* the ledger's clean-up, with any cutoff between the creation instants
ClearOld ==
  /\ \E cutoff_time \in (0 - 1)..MaxNotifications :
        history' = clear_old_notifications(history, cutoff_time)
  /\ UNCHANGED <<teams, pending, counter, assignments, swaps, forms, legacy, distribution>>

\* _calculate_team_distribution called with the program's size constants
Distribute ==
  /\ \E total_employees \in 0..MaxStaff :
        LET r == calculate_team_distribution(total_employees, ideal_team_size,
                                             min_team_size, critical_min)
        IN  distribution' = [total |-> total_employees,
                     num_teams |-> r.num_teams, team_sizes |-> r.team_sizes]
  /\ UNCHANGED <<teams, pending, history, counter, assignments, swaps, forms, legacy>>

\* formation, change detection, resolution of notifications
Next == Form \/ Detect \/ Approve \/ Reject

Spec == Init /\ [][Next]_vars

\* formation, change detection and approvals, with assignment passes
NextEngine == Form \/ Detect \/ Approve \/ Assign

SpecEngine == Init /\ [][NextEngine]_vars

\* both engines on the teams of one formation: the windowed passes of the
\* team-based engine and the runs of the employee-based Scheduler
NextSchedule == Form \/ Assign \/ RunScheduling

SpecSchedule == Init /\ [][NextSchedule]_vars

\* formation and manual swaps
NextSwap == Form \/ Swap

SpecSwap == Init /\ [][NextSwap]_vars

\* the registry driven directly: formation, binding and releasing of teams
NextRegistry == Form \/ Bind \/ Release

SpecRegistry == Init /\ [][NextRegistry]_vars

\* formation, and the size distribution on every head count up to MaxStaff
NextDistribution == Form \/ Distribute

SpecDistribution == Init /\ [][NextDistribution]_vars

\* the registry over its whole life: formation and re-formation, binding and
\* releasing
NextLifecycle == Form \/ Reform \/ Bind \/ Release

SpecLifecycle == Init /\ [][NextLifecycle]_vars

\* formation alone, repeated, over every order of the shuffled list
NextForm == FormAll

SpecForm == Init /\ [][NextForm]_vars

\* the ledger over its whole life: creation by the detector, resolution and
\* clean-up of the history
NextLedger == Form \/ Detect \/ Approve \/ Reject \/ ClearOld

SpecLedger == Init /\ [][NextLedger]_vars

(***************************************************************************)
(* Properties.                                                             *)
(***************************************************************************)
\* the staff whose shift covers the instant: start <= instant < end
Covering(instant) ==
  {id \in StaffIds : Emp(id).start <= instant /\ instant < Emp(id).end}

\* the members of every team of the registry t, one list after the other
Memberships(t) == AllMemberIds(t, TeamOrder(t))

\* the list s holds each element of the set S exactly once and nothing else
ExactlyOnce(s, S) == Range(s) = S /\ Len(s) = Cardinality(S)

\* C1: after a successful form_initial_teams at an instant, the members of
\* all teams of the registry together with the returned remainder are the
\* staff whose shift covers the instant, each exactly once and nobody else;
\* stated for a formation in every state SpecForm reaches, on every order
\* the shuffle can leave.
C1_PartitionAfterFormation ==
  \A t \in FormInstants : \A employees_list \in AllOrders(EmployeesList(t)) :
    LET r == form_initial_teams(teams, t, employees_list)
    IN  r.ok => ExactlyOnce(Memberships(r.teams) \o r.remainder, Covering(t))

\* C2: for every team, size is the number of its current members, in every
\* state reached by formation and applied approvals.
C2_SizeIsMemberCount ==
  \A n \in DOMAIN teams : teams[n].size = Len(teams[n].members)

\* the records of the log with this flight id
RecordsOf(log, f) == {i \in 1..Len(log) : log[i].flight_id = f}

\* C3: for every flight the Assignment log holds at most one record with
\* that flight id, after any number of passes of the team-based engine at any
\* instants and windows, and after any number of runs of Scheduler.run_scheduling.
C3_OneRecordPerFlight ==
  \A f \in FlightIds :
    /\ Cardinality(RecordsOf(assignments, f)) <= 1
    /\ Cardinality(RecordsOf(legacy.assignments, f)) <= 1

\* C3's case: flight 2 was logged by an earlier pass than flight 1, whose later
\* pass (instant 10) covers flight 2's arrival again; and the Scheduler has run.
C3_Witness ==
  /\ \E i, j \in 1..Len(assignments) :
        i < j /\ assignments[i].flight_id = 2 /\ assignments[j].flight_id = 1
  /\ Len(legacy.assignments) = Len(Flights)

FlightOf(f) == CHOOSE x \in Range(Flights) : x.flight_number = f

WellFormed(f) == FlightOf(f).etd_datetime >= FlightOf(f).eta_datetime

\* C4: any two successful Assignments of flights with departure >= arrival
\* that are bound to the same team do not overlap, and the later flight arrives
\* at least min_break_minutes after the earlier one departs.
C4_NoDoubleBooking ==
  \A i, j \in 1..Len(assignments) :
    LET a == assignments[i]
        b == assignments[j]
    IN  ( /\ i # j
          /\ a.assignment_success /\ b.assignment_success
          /\ a.team_assigned = b.team_assigned
          /\ WellFormed(a.flight_id) /\ WellFormed(b.flight_id)
          /\ FlightOf(a.flight_id).eta_datetime <= FlightOf(b.flight_id).eta_datetime )
        => FlightOf(b.flight_id).eta_datetime - FlightOf(a.flight_id).etd_datetime
             >= min_break_minutes

\* the names of the teams get_available_teams returns
AvailableNames(t, instant, min_break) ==
  LET available == get_available_teams(t, instant, min_break)
  IN  {available[i].name : i \in 1..Len(available)}

\* the three conditions of the availability rule, as the rule states them
Qualifies(team, instant, min_break) ==
  /\ team.current_flight = NoId
  /\ team.last_flight_end = NoTime \/ instant - team.last_flight_end >= min_break
  /\ \A m \in Range(team.members) : Emp(m).end >= instant

\* C5: get_available_teams(instant, minBreak) returns a team if and only if
\* (a) it has no current flight, (b) it has no last flight end or
\* instant - last_flight_end >= minBreak, and (c) every member's shift end is
\* >= instant; a team with a member whose shift end is before the instant is
\* never returned.
C5_AvailableIffQualifies ==
  \A t \in QueryInstants :
    /\ AvailableNames(teams, t, min_break_minutes)
         = {n \in DOMAIN teams : Qualifies(teams[n], t, min_break_minutes)}
    /\ \A n \in DOMAIN teams :
         (\E m \in Range(teams[n].members) : Emp(m).end < t)
           => n \notin AvailableNames(teams, t, min_break_minutes)

\* C5's case: at one instant one team is returned after a break that is
\* exactly long enough, with a member whose shift ends at that instant or
\* later, while another team is withheld because it has a current flight; and
\* at another instant a team that is free and rested is withheld for a member
\* already off shift.
C5_Witness ==
  /\ \E n, k \in DOMAIN teams : \E t \in QueryInstants :
        /\ n \in AvailableNames(teams, t, min_break_minutes)
        /\ teams[n].last_flight_end # NoTime
        /\ t - teams[n].last_flight_end = min_break_minutes
        /\ teams[k].current_flight # NoId
        /\ k \notin AvailableNames(teams, t, min_break_minutes)
  /\ \E n \in DOMAIN teams : \E t \in QueryInstants :
        /\ teams[n].current_flight = NoId
        /\ teams[n].last_flight_end # NoTime
        /\ t - teams[n].last_flight_end >= min_break_minutes
        /\ \E m \in Range(teams[n].members) : Emp(m).end < t
        /\ n \notin AvailableNames(teams, t, min_break_minutes)

\* C6: a team with zero members is never returned by get_available_teams, and
\* no successful Assignment binds a team without members.
C6_EmptyTeamInert ==
  /\ \A n \in DOMAIN teams : \A t \in QueryInstants :
        teams[n].members = <<>>
          => n \notin AvailableNames(teams, t, min_break_minutes)
  /\ \A i \in 1..Len(assignments) :
        assignments[i].assignment_success => assignments[i].team_members # <<>>

\* the ids of the notifications of a queue or of the history
IdsOf(q) == {q[i].id : i \in 1..Len(q)}

\* what approve_notification and reject_notification return for an id that is
\* not pending: False, with the ledger as it was
NotFound == [ok |-> FALSE, pending |-> pending, history |-> history]

\* a second resolution of the id, either way, on the ledger r fails
Resolved(r, id) ==
  /\ r.ok
  /\ \A o \in Overrides : ~approve_notification(r.pending, r.history, id, o).ok
  /\ ~reject_notification(r.pending, r.history, id, NoTeam).ok

C7_NotFoundState ==
  /\ \A id \in (0..MaxNotifications) \ IdsOf(pending) :
        /\ \A o \in Overrides :
              approve_notification(pending, history, id, o) = NotFound
        /\ reject_notification(pending, history, id, NoTeam) = NotFound
  /\ \A id \in IdsOf(pending) :
        /\ \A o \in Overrides :
              Resolved(approve_notification(pending, history, id, o), id)
        /\ Resolved(reject_notification(pending, history, id, NoTeam), id)

\* C7: approve_notification or reject_notification on an id that is not in
\* the pending queue (never created, or already approved or rejected) returns
\* False and leaves the pending queue and the history, and with it the status
\* of the resolved notification, unchanged; of an approval and a rejection of
\* the same pending id, in either order, the first succeeds and the second
\* fails; no approval or rejection changes the id counter.
C7_NotFoundChangesNothing ==
  /\ []C7_NotFoundState
  /\ [][(Approve \/ Reject) => counter' = counter]_vars

\* C7's case: one notification is resolved and another is still pending.
C7_Witness == Len(history) >= 1 /\ Len(pending) >= 1

\* how often the id occurs in the queue or the history
Occurrences(q, id) == Cardinality({i \in 1..Len(q) : q[i].id = id})

C8_LedgerState ==
  /\ \A id \in 0..(counter - 1) :
        Occurrences(pending, id) + Occurrences(history, id) = 1
  /\ \A i \in 1..Len(pending) : pending[i].status = "pending"
  /\ \A i \in 1..Len(history) : history[i].status \in {"approved", "rejected"}

SameMembership(t, u) ==
  /\ DOMAIN t = DOMAIN u
  /\ \A n \in DOMAIN t :
        /\ u[n].members = t[n].members
        /\ u[n].member_ids = t[n].member_ids
        /\ u[n].size = t[n].size

C9_BindAndReleaseState ==
  \A n \in SwapNames :
    /\ \A i \in 1..Len(Flights) :
          SameMembership(teams, assign_team_to_flight(teams, n, Flights[i]))
    /\ \A t \in ReleaseTimes :
          SameMembership(teams, complete_flight(teams, n, t))

\* C9: binding a team to a flight and releasing it yield a registry in which
\* every team has the members and the size it had; and a step that changes
\* some team's members or size is no step of change detection (with the
\* notifications it creates) and no assignment pass (availability queries,
\* binds and releases).
C9_MembershipFrame ==
  /\ []C9_BindAndReleaseState
  /\ [][SameMembership(teams, teams') \/ ~(Detect \/ Assign)]_vars

\* C9's case: detection has created a notification and a pass has bound and
\* released a team that has members.
C9_Witness ==
  /\ counter > 0
  /\ \E n \in DOMAIN teams :
        /\ teams[n].flight_count > 0
        /\ teams[n].last_flight_end # NoTime
        /\ teams[n].members # <<>>

C10_RejectState ==
  \A id \in IdsOf(pending) :
    LET n == pending[FindPending(pending, id)]
        r == reject_notification(pending, history, id, NoTeam)
        last == r.history[Len(r.history)]
    IN  /\ r.ok
        /\ id \notin IdsOf(r.pending)
        /\ Len(r.pending) = Len(pending) - 1
        /\ Len(r.history) = Len(history) + 1
        /\ SubSeq(r.history, 1, Len(history)) = history
        /\ last.id = id /\ last.status = "rejected"
        /\ last.type = n.type /\ last.data = n.data

\* C10: rejecting a pending notification moves it from the pending queue to
\* the end of the history with status rejected, and a rejection changes no
\* team: members, sizes, flight counters, current flights and last flight ends
\* are as before.
C10_RejectMovesAndKeepsTeams ==
  /\ []C10_RejectState
  /\ [][Reject => teams' = teams]_vars

\* C10's case: teams are formed and a notification has been rejected.
C10_Witness ==
  /\ DOMAIN teams # {}
  /\ \E i \in 1..Len(history) : history[i].status = "rejected"

\* the pending arrivals for which detection found no team to suggest
UnplacedArrivals ==
  {i \in 1..Len(pending) :
     pending[i].type = "team_join" /\ pending[i].data.suggested_team = NoTeam}

\* the ledger and the registry of r are the current ones
NothingChanged(r) ==
  r.teams = teams /\ r.pending = pending /\ r.history = history

PendingOf(type) == {i \in 1..Len(pending) : pending[i].type = type}

\* C12: approving a team_replacement leaves the named team with its former
\* members except the leaving one, in their order, followed by the
\* replacement; the team's size, flight counter, current flight and last
\* flight end, and every other team, are as before.
C12_ReplacementSwapsOneMember ==
  \A i \in PendingOf("team_replacement") :
    LET d == pending[i].data
        r == approve_team_change(teams, pending, history, pending[i].id, NoTeam)
    IN  /\ r.ok
        /\ DOMAIN r.teams = DOMAIN teams
        /\ r.teams[d.team_name].members
             = Without(teams[d.team_name].members, d.leaving_id) \o <<d.joining_id>>
        /\ r.teams[d.team_name].member_ids = r.teams[d.team_name].members
        /\ d.leaving_id \notin Range(r.teams[d.team_name].members)
        /\ r.teams[d.team_name].size = teams[d.team_name].size
        /\ r.teams[d.team_name].flight_count = teams[d.team_name].flight_count
        /\ r.teams[d.team_name].current_flight = teams[d.team_name].current_flight
        /\ r.teams[d.team_name].last_flight_end = teams[d.team_name].last_flight_end
        /\ \A n \in DOMAIN teams \ {d.team_name} : r.teams[n] = teams[n]

\* C12's case: a replacement is pending for a member who is on the named team.
C12_Witness ==
  \E i \in PendingOf("team_replacement") :
    pending[i].data.leaving_id \in Range(teams[pending[i].data.team_name].members)

\* C13: every pending team_leave, once approved, leaves its team without the
\* named member and with a size equal to the remaining_team_size it carries.
C13_LeaveSizeAsAnnounced ==
  \A i \in PendingOf("team_leave") :
    LET d == pending[i].data
        r == approve_team_change(teams, pending, history, pending[i].id, NoTeam)
    IN  /\ r.ok
        /\ d.employee_id \notin Range(r.teams[d.team_name].members)
        /\ r.teams[d.team_name].size = d.remaining_team_size

\* the overrides, none included, under which a team_join has a target team
ResolvableOverrides(notification) ==
  {o \in DOMAIN teams \cup {NoTeam} :
     o # NoTeam \/ notification.data.suggested_team \in DOMAIN teams}

\* C14: approving a pending team_join under an override naming a team, or
\* under no override when it suggests a team, appends the arriving member to
\* that team (the override first, else the suggestion), raises that team's
\* size by one and leaves every other team as it was.
C14_JoinAppendsToTarget ==
  \A i \in PendingOf("team_join") :
    \A o \in ResolvableOverrides(pending[i]) :
      LET d == pending[i].data
          target == IF o # NoTeam THEN o ELSE d.suggested_team
          r == approve_team_change(teams, pending, history, pending[i].id, o)
      IN  /\ r.ok
          /\ DOMAIN r.teams = DOMAIN teams
          /\ r.teams[target].members = Append(teams[target].members, d.employee_id)
          /\ r.teams[target].size = teams[target].size + 1
          /\ \A n \in DOMAIN teams \ {target} : r.teams[n] = teams[n]

\* C14's case: an arrival is pending with a suggested team and another team
\* the caller may name instead.
C14_Witness ==
  \E i \in PendingOf("team_join") :
    /\ pending[i].data.suggested_team \in DOMAIN teams
    /\ DOMAIN teams \ {pending[i].data.suggested_team} # {}

\* the notifications one detector run at current_time would create
Detected(current_time) == DetectedNotices(teams, TeamOrder(teams), current_time)

\* the positions in notices that announce member leaving team_name
DepartureNotices(notices, team_name, member) ==
  {i \in 1..Len(notices) :
     /\ notices[i].data.team_name = team_name
     /\ \/ /\ notices[i].type = "team_replacement"
           /\ notices[i].data.leaving_id = member
        \/ /\ notices[i].type = "team_leave"
           /\ notices[i].data.employee_id = member}

\* the staff on some team
OnSomeTeam == UNION {Range(teams[n].members) : n \in DOMAIN teams}

\* the staff on no team whose shift covers [current_time, current_time + 30)
FreeCover(current_time) ==
  {e \in Range(Staff) :
     /\ e.employee_id \notin OnSomeTeam
     /\ e.start <= current_time
     /\ e.end >= current_time + LeaveWindow}

\* C15: in one detector run a team member whose shift ends in
\* (instant, instant + 30] is announced exactly once, by a team_replacement
\* when some staff member on no team covers the next 30 minutes and by a
\* team_leave otherwise; a member whose shift ends outside is not announced.
C15_OneDepartureNoticeEach ==
  \A t \in Instants : \A n \in DOMAIN teams : \A m \in Range(teams[n].members) :
    LET notices == Detected(t)
        mine == DepartureNotices(notices, n, m)
        ending == t < Emp(m).end /\ Emp(m).end <= t + LeaveWindow
    IN  IF ending
        THEN /\ Cardinality(mine) = 1
             /\ \A i \in mine :
                   notices[i].type = (IF FreeCover(t) # {} THEN "team_replacement"
                                                        ELSE "team_leave")
        ELSE mine = {}

\* C16: the replacement a detector run names in a team_replacement is, at
\* that instant, on no team at all, and its shift covers the next 30 minutes.
C16_ReplacementOnNoTeam ==
  \A t \in Instants :
    LET notices == Detected(t)
    IN  \A i \in 1..Len(notices) :
          notices[i].type = "team_replacement"
            => /\ notices[i].data.joining_id \notin OnSomeTeam
               /\ Emp(notices[i].data.joining_id).start <= t
               /\ Emp(notices[i].data.joining_id).end >= t + LeaveWindow

\* the pool members who started within the last 5 minutes and are on no team
Arrivals(current_time) ==
  {e \in Range(Staff) :
     /\ current_time - ArrivalWindow <= e.start /\ e.start <= current_time
     /\ e.employee_id \notin OnSomeTeam}

\* the positions in notices that announce the arrival of member
ArrivalNotices(notices, member) ==
  {i \in 1..Len(notices) :
     notices[i].type = "team_join" /\ notices[i].data.employee_id = member}

\* the first team in label order below the ideal size, or None
FirstBelowIdeal ==
  LET below == {i \in 1..Len(team_names) :
                  team_names[i] \in DOMAIN teams /\ teams[team_names[i]].size < 4}
  IN  IF below = {} THEN NoTeam
      ELSE team_names[CHOOSE i \in below : \A j \in below : i <= j]

\* C17: in one detector run over a registry that holds teams, however many,
\* each arrival (shift start in [instant - 5, instant], on no team) is
\* announced by exactly one team_join, which suggests the first team in label
\* order with size below 4, or none when there is no such team.
C17_OneJoinNoticeEach ==
  DOMAIN teams # {} =>
    \A t \in Instants : \A e \in Arrivals(t) :
      LET notices == Detected(t)
          mine == ArrivalNotices(notices, e.employee_id)
      IN  /\ Cardinality(mine) = 1
          /\ \A i \in mine : notices[i].data.suggested_team = FirstBelowIdeal

\* C18: when N people are distributed over k teams, there are k sizes that
\* add up to N, each floor(N/k) or floor(N/k) + 1, and the larger size is
\* held by exactly the first N mod k teams in label order.
C18_EvenDistribution ==
  distribution.num_teams > 0 =>
    LET N == distribution.total
        k == distribution.num_teams
    IN  /\ Len(distribution.team_sizes) = k
        /\ SumSeq(distribution.team_sizes) = N
        /\ \A i \in 1..k : distribution.team_sizes[i] \in {N \div k, N \div k + 1}
        /\ Cardinality({i \in 1..k : distribution.team_sizes[i] = N \div k + 1}) = N % k
        /\ \A i \in 1..k : distribution.team_sizes[i] = N \div k + 1 <=> i <= N % k

\* C18's case: 14 people over 4 teams, two of them larger.
C18_Witness == distribution.total = 14 /\ distribution.num_teams = 4

UnstaffedInstants ==
  {t \in FormInstants : \A e \in Range(Staff) : ~(e.start <= t /\ t < e.end)}

\* C20: formation at an instant nobody's shift covers fails with the
\* no-staff error and returns the registry as it found it.
C20_NoStaffLeavesRegistry ==
  \A t \in UnstaffedInstants :
    LET r == form_initial_teams(teams, t, EmployeesList(t))
    IN  /\ ~r.ok
        /\ r.err = "No employees available at shift start"
        /\ r.teams = teams

\* C20's case: the registry holds teams when formation is asked for at an
\* instant without staff.
C20_Witness == DOMAIN teams # {} /\ UnstaffedInstants # {}

\* the staff whose shift covers instant t
OnShift(t) == {e \in Range(Staff) : e.start <= t /\ t < e.end}

\* C21: formation at an instant exactly one shift covers fails, and a
\* formation that succeeds returns an empty remainder.
C21_OneAloneFails ==
  \A t \in FormInstants : \A employees_list \in AllOrders(EmployeesList(t)) :
    LET r == form_initial_teams(teams, t, employees_list)
    IN  /\ Cardinality(OnShift(t)) = 1 => ~r.ok
        /\ r.ok => r.remainder = <<>>

\* the names get_available_teams returns for a flight, in iteration order
AvailableFor(flight) ==
  LET available == get_available_teams(teams, flight.eta_datetime, min_break_minutes)
  IN  [i \in 1..Len(available) |-> available[i].name]

\* the positions in AvailableFor(flight) of the candidate teams: those of the
\* required size, or all of them when none is
CandidatePositions(flight) ==
  LET names == AvailableFor(flight)
      fit == {i \in 1..Len(names) :
                teams[names[i]].size >= get_team_size_needed(flight.heaviness)}
  IN  IF fit = {} THEN 1..Len(names) ELSE fit

\* the candidate the rule selects: lowest flight counter, then first in order
FairChoice(flight) ==
  LET names == AvailableFor(flight)
      c == CandidatePositions(flight)
      least == {i \in c : \A j \in c :
                  teams[names[i]].flight_count <= teams[names[j]].flight_count}
  IN  names[CHOOSE i \in least : \A j \in least : i <= j]

\* the registry and the log after the engine has processed one flight
Processed(flight) == AssignFlight([teams |-> teams, log |-> assignments], flight)

\* C22: a flight for which some team is available is bound to the candidate
\* with the lowest flight counter, the first in iteration order among equals:
\* that team is the one in the flight's record and the one whose counter grows.
C22_LowestCounterFirst ==
  \A f \in Range(Flights) :
    AvailableFor(f) # <<>> =>
      LET r == Processed(f)
          record == r.log[Len(r.log)]
      IN  /\ record.flight_id = f.flight_number
          /\ record.team_assigned = FairChoice(f)
          /\ \A n \in DOMAIN teams :
                r.teams[n].flight_count
                  = teams[n].flight_count + (IF n = FairChoice(f) THEN 1 ELSE 0)

\* C22's case: two candidates for a flight, the first in iteration order with
\* the higher flight counter.
C22_Witness ==
  \E f \in Range(Flights) :
    LET names == AvailableFor(f)
    IN  \E i, j \in CandidatePositions(f) :
          i < j /\ teams[names[i]].flight_count > teams[names[j]].flight_count

\* the teams the availability rule admits for a flight
QualifiedFor(flight) ==
  {n \in DOMAIN teams : Qualifies(teams[n], flight.eta_datetime, min_break_minutes)}

SourceIndex(f) == CHOOSE i \in 1..Len(Flights) : Flights[i].flight_number = f

\* record a comes before record b in arrival order, source order among equals
ArrivesBefore(a, b) ==
  \/ FlightOf(a.flight_id).eta_datetime < FlightOf(b.flight_id).eta_datetime
  \/ /\ FlightOf(a.flight_id).eta_datetime = FlightOf(b.flight_id).eta_datetime
     /\ SourceIndex(a.flight_id) < SourceIndex(b.flight_id)

PassInput(t, w) ==
  {f \in Range(Flights) :
     /\ t <= f.eta_datetime /\ f.eta_datetime < t + 60 * w
     /\ RecordsOf(assignments, f.flight_number) = {}}

\* C25: a windowed pass adds exactly one record for each flight of its input
\* set, failures included, and returns that number; a run of the Scheduler
\* leaves exactly one record for each flight of the flight source.
C25_OneOutcomePerInput ==
  /\ \A t \in AssignInstants, w \in WindowHours :
        LET r == assign_flights_in_window(teams, assignments, t, w)
        IN  /\ Len(r.log) = Len(assignments) + Cardinality(PassInput(t, w))
            /\ r.processed = Cardinality(PassInput(t, w))
            /\ \A f \in PassInput(t, w) :
                  Cardinality(RecordsOf(r.log, f.flight_number)) = 1
  /\ LET l == run_scheduling(legacy)
     IN  /\ Len(l.assignments) = Len(Flights)
         /\ \A f \in FlightIds : Cardinality(RecordsOf(l.assignments, f)) = 1
  /\ legacy.assignments # <<>> =>
        \A f \in FlightIds : Cardinality(RecordsOf(legacy.assignments, f)) = 1

\* C25's case: in both logs a failure is followed by a success.
C25_Witness ==
  /\ \E i, j \in 1..Len(assignments) :
        i < j /\ ~assignments[i].assignment_success /\ assignments[j].assignment_success
  /\ \E i, j \in 1..Len(legacy.assignments) :
        /\ i < j
        /\ ~legacy.assignments[i].assignment_success
        /\ legacy.assignments[j].assignment_success

\* the flights a pass over log added to it
AddedFlights(log) ==
  {log[i].flight_id : i \in (Len(assignments) + 1)..Len(log)}

\* C26: the records a pass at instant t over w hours adds are for flights
\* arriving in [t, t + w hours): every flight not yet logged that arrives
\* there, the one arriving at t included, and no flight arriving at
\* t + w hours or anywhere else outside.
C26_WindowHalfOpen ==
  \A t \in AssignInstants, w \in WindowHours :
    LET r == assign_flights_in_window(teams, assignments, t, w)
    IN  \A f \in Range(Flights) :
          /\ f.flight_number \in AddedFlights(r.log)
                <=> /\ t <= f.eta_datetime /\ f.eta_datetime < t + 60 * w
                    /\ RecordsOf(assignments, f.flight_number) = {}
          /\ f.eta_datetime = t + 60 * w => f.flight_number \notin AddedFlights(r.log)
          /\ f.eta_datetime = t /\ RecordsOf(assignments, f.flight_number) = {}
                => f.flight_number \in AddedFlights(r.log)

\* C26's case: the log holds flights 2 and 4 only, the work of the one-hour
\* pass at 30, whose window closes as flight 3 arrives.
C26_Witness == LoggedFlights(assignments) = {2, 4}

\* C27: a pass repeated at once with the same instant and window processes no
\* flight and leaves the log and the whole registry (flight counters, current
\* flights, last flight ends) as the first pass left them, also when the
\* first pass logged failures.
C27_RepeatedPassIsIdle ==
  \A t \in AssignInstants, w \in WindowHours :
    LET first == assign_flights_in_window(teams, assignments, t, w)
        again == assign_flights_in_window(first.teams, first.log, t, w)
    IN  /\ again.processed = 0
        /\ again.log = first.log
        /\ again.teams = first.teams

\* C27's case: the log holds a failure for a flight that a window of the
\* model covers.
C27_Witness ==
  \E i \in 1..Len(assignments) : \E t \in AssignInstants, w \in WindowHours :
    /\ ~assignments[i].assignment_success
    /\ InWindow(FlightOf(assignments[i].flight_id), t, w)

\* C28: no step lowers the flight counter of a team: a team of the registry
\* is still there after the step, with a counter at least as high.
C28_CounterNeverDecreases ==
  [][\A n \in DOMAIN teams :
       /\ n \in DOMAIN teams'
       /\ teams'[n].flight_count >= teams[n].flight_count]_vars

\* the positions of the successful records a pass over log added for a team
BoundIn(log, team_name) ==
  {i \in (Len(assignments) + 1)..Len(log) :
     log[i].assignment_success /\ log[i].team_assigned = team_name}

\* C29: when a pass returns no team is bound to a flight, and a team the pass
\* bound has as last flight end the departure of the last flight it was bound
\* to; binding a team sets its current flight and adds exactly 1 to its flight
\* counter, and releasing it clears the current flight, sets the last flight
\* end and keeps the counter.
C29_ReleasedAfterPass ==
  /\ \A n \in DOMAIN teams : teams[n].current_flight = NoId
  /\ \A t \in AssignInstants, w \in WindowHours :
        LET r == assign_flights_in_window(teams, assignments, t, w)
        IN  \A n \in DOMAIN r.teams :
              /\ r.teams[n].current_flight = NoId
              /\ BoundIn(r.log, n) # {} =>
                    LET last == CHOOSE i \in BoundIn(r.log, n) :
                                  \A j \in BoundIn(r.log, n) : j <= i
                    IN  r.teams[n].last_flight_end
                          = FlightOf(r.log[last].flight_id).etd_datetime
  /\ \A n \in DOMAIN teams : \A f \in Range(Flights) :
        LET bound == assign_team_to_flight(teams, n, f)
            released == complete_flight(bound, n, f.etd_datetime)
        IN  /\ bound[n].flight_count = teams[n].flight_count + 1
            /\ bound[n].current_flight = f.flight_number
            /\ released[n].flight_count = bound[n].flight_count
            /\ released[n].current_flight = NoId
            /\ released[n].last_flight_end = f.etd_datetime

\* C29's case: passes have bound one team to two flights.
C29_Witness ==
  \E i, j \in 1..Len(assignments) :
    /\ i < j
    /\ assignments[i].assignment_success /\ assignments[j].assignment_success
    /\ assignments[i].team_assigned = assignments[j].team_assigned

\* the number of team memberships in registry t
MembershipCount(t) ==
  SumSeq([i \in 1..Len(TeamOrder(t)) |-> Len(t[TeamOrder(t)[i]].members)])

\* C30: a successful swap between two different teams leaves the member on
\* the second team and not on the first, lowers the first team's size by 1
\* and raises the second's by 1, keeps the number of memberships, and changes
\* no other team and no flight counter, current flight or last flight end.
C30_SwapMovesOneMember ==
  \A a \in DOMAIN teams, b \in DOMAIN teams, e \in StaffIds :
    LET r == manually_swap_members(teams, a, b, e)
    IN  a # b /\ r.ok =>
          /\ e \in Range(r.teams[b].members)
          /\ e \notin Range(r.teams[a].members)
          /\ r.teams[a].size = teams[a].size - 1
          /\ r.teams[b].size = teams[b].size + 1
          /\ MembershipCount(r.teams) = MembershipCount(teams)
          /\ DOMAIN r.teams = DOMAIN teams
          /\ \A n \in DOMAIN teams \ {a, b} : r.teams[n] = teams[n]
          /\ \A n \in DOMAIN teams :
                /\ r.teams[n].flight_count = teams[n].flight_count
                /\ r.teams[n].current_flight = teams[n].current_flight
                /\ r.teams[n].last_flight_end = teams[n].last_flight_end

\* the swaps that must fail: a team name the registry does not hold, or an
\* employee the first team does not hold
SwapMustFail(a, b, e) ==
  \/ a \notin DOMAIN teams
  \/ b \notin DOMAIN teams
  \/ e \notin Range(teams[a].members)

\* C31: a swap returns false and leaves the registry as it was when the
\* employee is not a member of the first team, or when either team name is
\* not in the registry.
C31_FailedSwapChangesNothing ==
  \A a \in SwapNames, b \in SwapNames, e \in StaffIds :
    LET r == manually_swap_members(teams, a, b, e)
    IN  SwapMustFail(a, b, e) => ~r.ok /\ r.teams = teams

\* after a swap, an employee of one team is asked to leave another team that
\* does not hold them, and a label is asked for that the registry lacks
C31_Witness ==
  /\ swaps > 0
  /\ "Delta" \notin DOMAIN teams
  /\ \E a \in DOMAIN teams, b \in DOMAIN teams, e \in StaffIds :
        /\ a # b
        /\ e \in Range(teams[b].members)
        /\ e \notin Range(teams[a].members)
        /\ SwapMustFail(a, b, e)

\* the new registry holds every label the current one holds, and only labels
\* of the fixed list
LabelsKept(new) ==
  /\ DOMAIN teams \subseteq DOMAIN new
  /\ DOMAIN new \subseteq Range(team_names)
  /\ Cardinality(DOMAIN new) <= 4

\* the registries one swap, one bind or one release makes of the current one
AfterRegistryCall ==
  {manually_swap_members(teams, a, b, e).teams :
     a \in SwapNames, b \in SwapNames, e \in StaffIds}
  \cup {assign_team_to_flight(teams, n, Flights[i]) :
          n \in SwapNames, i \in 1..Len(Flights)}
  \cup {complete_flight(teams, n, t) : n \in SwapNames, t \in ReleaseTimes}

\* C32: teams are never destroyed. A label the registry holds is still held
\* after a detection, an approval or a rejection, and after any swap, bind
\* or release made from a reachable state; every label is one of Alpha,
\* Bravo, Charlie, Delta, so there are never more than 4 teams.
C32_TeamsNeverDestroyed ==
  /\ [](\A new \in AfterRegistryCall : LabelsKept(new))
  /\ [][LabelsKept(teams')]_vars

\* both members of a team have left by approval and the team is still there
C32_Witness ==
  /\ \E n \in DOMAIN teams : teams[n].members = <<>>
  /\ \E i \in 1..Len(history) : history[i].status = "approved"
  /\ \E new \in AfterRegistryCall : new # teams

\* C33: no staff member is on more than one team and none appears twice in
\* one team's member list, in every state reached by formation, change
\* detection and approvals in any order.
C33_NoRepeatedMembership ==
  Len(Memberships(teams)) = Cardinality(Range(Memberships(teams)))

\* a shift whose teams are formed again while its Assignment log is kept
NextShiftLog == Form \/ Reform \/ Assign

SpecShiftLog == Init /\ [][NextShiftLog]_vars

\* the successful records of the log that bind the team
BindingsOf(team_name) ==
  {i \in 1..Len(assignments) :
     assignments[i].assignment_success /\ assignments[i].team_assigned = team_name}

\* C34: in every reachable state each team's flight counter equals the number
\* of successful Assignment records in the log whose bound team is that team.
C34_CounterMatchesLog ==
  \A n \in DOMAIN teams : teams[n].flight_count = Cardinality(BindingsOf(n))

\* the ledger r holds as many pending and as many resolved notifications as
\* the current one
SameCounts(r) ==
  Len(r.pending) = Len(pending) /\ Len(r.history) = Len(history)

\* C35: the number of pending notifications plus the number of notifications
\* in the history is the number of notifications ever created (the id
\* counter), and an approval or a rejection that fails changes neither
\* number.
C35_CountsAddUp ==
  /\ Len(pending) + Len(history) = counter
  /\ \A id \in 0..MaxNotifications :
        /\ \A o \in Overrides :
              LET r == approve_notification(pending, history, id, o)
              IN  ~r.ok => SameCounts(r)
        /\ LET r == reject_notification(pending, history, id, NoTeam)
           IN  ~r.ok => SameCounts(r)

\* two notifications were created, one is rejected and one still pending,
\* and a second resolution of the rejected one fails
C35_Witness ==
  /\ counter = 2
  /\ Len(pending) = 1
  /\ Len(history) = 1
  /\ history[1].status = "rejected"
  /\ ~reject_notification(pending, history, history[1].id, NoTeam).ok
  /\ ~approve_notification(pending, history, history[1].id, NoTeam).ok

\* the labels a formation at the instant gives its k teams
FormedLabels(shift_start_time) ==
  LET total_employees == Len(AvailableAt(shift_start_time))
      k == calculate_team_distribution(total_employees, ideal_team_size,
                                       min_team_size, critical_min).num_teams
  IN  {team_names[i] : i \in 1..k}

\* C36: after a successful form_initial_teams, also one called on a registry
\* that already holds teams, the registry holds exactly the k teams that call
\* formed and no team of an earlier formation.
C36_OnlyNewTeamsRemain ==
  \A t \in FormInstants :
    LET r == form_initial_teams(teams, t, EmployeesList(t))
    IN  r.ok => DOMAIN r.teams = FormedLabels(t)

\* the closed intervals [eta, etd] of the two flights share an instant
Overlap(f, g) ==
  /\ FlightOf(f).eta_datetime <= FlightOf(g).etd_datetime
  /\ FlightOf(g).eta_datetime <= FlightOf(f).etd_datetime

\* C37: in the log of Scheduler.run_scheduling no employee appears in two
\* successful assignments whose [eta, etd] intervals overlap.
C37_NoEmployeeDoubleBooked ==
  \A i, j \in 1..Len(legacy.assignments) :
    LET a == legacy.assignments[i]
        b == legacy.assignments[j]
    IN  ( /\ i # j
          /\ a.assignment_success /\ b.assignment_success
          /\ Overlap(a.flight_id, b.flight_id) )
        => Range(a.team_ids) \cap Range(b.team_ids) = {}

\* the Scheduler l when a run started on it has processed its first k flights
DuringRun(l, k) ==
  AssignEach([l EXCEPT !.assignments = <<>>,
                       !.scheduling_results = NoResults,
                       !.workload_tracker = reset_workload],
             SubSeq(SortBySizeThenEta(Flights), 1, k))

\* nobody is over capacity, every successful record names exactly the
\* required number of distinct employees, each on shift from the arrival to
\* the departure, and the two counts add up to the length of the log
SoundSchedule(l) ==
  /\ \A id \in StaffIds : l.workload_tracker[id] <= Emp(id).max_flights_per_day
  /\ \A i \in 1..Len(l.assignments) :
        LET a == l.assignments[i]
            flight == FlightOf(a.flight_id)
        IN  a.assignment_success =>
              /\ Len(a.team_ids) = get_team_size_needed(flight.heaviness)
              /\ Cardinality(Range(a.team_ids)) = Len(a.team_ids)
              /\ \A id \in Range(a.team_ids) :
                    /\ Emp(id).start <= flight.eta_datetime
                    /\ Emp(id).end >= flight.etd_datetime
  /\ l.scheduling_results.successful_assignments
       + l.scheduling_results.failed_assignments = Len(l.assignments)

\* C38: during and after Scheduler.run_scheduling every employee's workload
\* is at most their max_flights_per_day, every successful assignment has
\* exactly required_team_size distinct employees whose shift covers
\* [eta, etd], and successful_assignments + failed_assignments is the number
\* of records in the log.
C38_SoundSchedule ==
  /\ SoundSchedule(legacy)
  /\ \A k \in 0..Len(Flights) : SoundSchedule(DuringRun(legacy, k))

\* the run is over: flights were staffed and others were not, three
\* employees have reached their capacity, and employee 4, on shift for
\* flight 5, was at capacity when it was staffed
C38_Witness ==
  /\ legacy.scheduling_results.successful_assignments >= 2
  /\ legacy.scheduling_results.failed_assignments >= 1
  /\ Cardinality({id \in StaffIds :
        legacy.workload_tracker[id] = Emp(id).max_flights_per_day}) >= 3
  /\ \E i \in 1..Len(legacy.assignments) :
        /\ legacy.assignments[i].flight_id = 5
        /\ legacy.assignments[i].assignment_success
        /\ 4 \notin Range(legacy.assignments[i].team_ids)
        /\ legacy.workload_tracker[4] = Emp(4).max_flights_per_day

\* the ids of the notifications of the ledger, pending or resolved
LedgerIds(queue) == IdsOf(queue) \cup IdsOf(history)

\* C39: a second run of the detector at the same instant, with the pool and
\* the teams unchanged, reports the conditions of the first run again and
\* removes no duplicate: it appends to the pending queue one more
\* notification, with a fresh id, for every notification the first run
\* created, with the same type and data and in the same order.
C39_SecondRunDuplicates ==
  \A t \in Instants :
    LET first == detect_and_notify_changes(teams, pending, counter, t)
        second == detect_and_notify_changes(teams, first.pending, first.counter, t)
        n == Len(first.created)
    IN  /\ Len(second.created) = n
        /\ second.counter = first.counter + n
        /\ Len(second.pending) = Len(first.pending) + n
        /\ SubSeq(second.pending, 1, Len(first.pending)) = first.pending
        /\ \A i \in 1..n :
              LET old == first.pending[Len(pending) + i]
                  new == second.pending[Len(first.pending) + i]
              IN  /\ new.type = old.type
                  /\ new.data = old.data
                  /\ new.status = "pending"
                  /\ new.id = second.created[i]
                  /\ new.id \notin LedgerIds(first.pending)

\* the detector has run twice at an instant at which it reports one
\* condition: the queue holds that notification twice, under two ids
C39_Witness ==
  /\ Len(pending) = 2
  /\ pending[1].id # pending[2].id
  /\ pending[1].type = pending[2].type
  /\ pending[1].data = pending[2].data
  /\ \E t \in Instants :
        /\ Len(Detected(t)) = 1
        /\ Detected(t)[1].type = pending[1].type
        /\ Detected(t)[1].data = pending[1].data

\* every id of the ledger was issued, no id is held twice, and the pending
\* queue is in creation order
IdsInOrder ==
  /\ \A id \in LedgerIds(pending) : id < counter
  /\ \A id \in LedgerIds(pending) :
        Occurrences(pending, id) + Occurrences(history, id) = 1
  /\ \A i, j \in 1..Len(pending) : i < j => pending[i].id < pending[j].id

\* what a step adds to the pending queue goes to its tail with status
\* pending, under ids that were never issued, in increasing order
CreatedAtTail ==
  /\ counter' >= counter
  /\ \A id \in IdsOf(pending') \ IdsOf(pending) : id >= counter /\ id < counter'
  /\ Len(pending') > Len(pending) =>
        /\ SubSeq(pending', 1, Len(pending)) = pending
        /\ \A i \in (Len(pending) + 1)..Len(pending') :
              /\ pending'[i].status = "pending"
              /\ pending'[i].id = counter + i - Len(pending) - 1

\* C40: notification ids are unique and strictly increasing in creation
\* order; an id is never reused after its notification is approved, rejected
\* or cleared from the history; every new notification starts with status
\* pending at the tail of the pending queue.
C40_IdsNeverReused ==
  /\ []IdsInOrder
  /\ [][CreatedAtTail]_vars

\* a notification was resolved and cleared from the history, and one created
\* after it is pending
C40_Witness ==
  \E id \in 0..(counter - 1) :
    /\ id \notin LedgerIds(pending)
    /\ \E i \in 1..Len(pending) : pending[i].id > id
====
